---- MODULE Spec2Model ----
(***************************************************************************)
(* The per-frame simulation core of the spaceship game: the kinematic      *)
(* craft (Spaceship.ts), the boundary resolver (CollisionSystem), the      *)
(* chase camera (CameraController.ts, and its direct-lerp predecessor) and *)
(* the rigid-body craft (Spaceship class of main.ts).                      *)
(*                                                                         *)
(* Numbers.  The program computes in IEEE doubles.  The model computes in  *)
(* fixed point and rounds every product and quotient to the nearest        *)
(* representable value (ties to even), as the floating-point unit does,    *)
(* at these resolutions:                                                   *)
(*   lengths, velocities, accelerations, unit vectors : 1 unit = 0.0001    *)
(*   angles                                           : 1 unit = 0.001 rad *)
(*   mouse axes                                       : 1 unit = 0.1       *)
(*   rigid-body force                                 : 1 unit = 1         *)
(*   rigid-body torque                                : 1 unit = 0.00001   *)
(* Vectors are triples <<x, y, z>>.                                        *)
(***************************************************************************)
EXTENDS Integers, Sequences, FiniteSets, TLC

VARIABLES
  \* --- kinematic craft (Spaceship.ts) ---
  position,        \* Spaceship.position (group.position is a copy of it)
  velocity,        \* Spaceship.velocity
  acceleration,    \* Spaceship.acceleration
  rotation,        \* Spaceship.group.rotation (Euler XYZ)
  targetRotation,  \* Spaceship.targetRotation
  currentSpeed,    \* Spaceship.currentSpeed
  \* --- rigid-body craft (main.ts) ---
  rbForce,         \* physicsBody.force, in the body's frame
  rbTorque,        \* physicsBody.torque
  rbVelocity,      \* physicsBody.velocity (owned by the physics engine)
  \* --- chase camera ---
  cameraOffset,        \* CameraController.cameraOffset
  currentZoomMode,     \* CameraController.currentZoomMode
  lastZoomToggleState, \* CameraController.lastZoomToggleState
  currentPosition,     \* CameraController.currentPosition (= camera.position)
  cameraVelocity,      \* CameraController.cameraVelocity (spring variant)
  targetPosition,      \* CameraController.targetPosition
  lookAheadPosition,   \* CameraController.lookAheadPosition
  targetRoll,          \* CameraController.targetRoll
  currentRoll,         \* CameraController.currentRoll
  \* --- input handler (InputHandler) ---
  keys,                \* InputHandler.keys: the key codes held as pressed
  spaceshipControls,   \* InputHandler.spaceshipControls (the live object)
  cameraDebugControls, \* InputHandler.cameraDebugControls
  isPointerLocked,     \* InputHandler.isPointerLocked
  \* --- physics world and UI (PhysicsWorld.ts, main.ts) ---
  accumulator,     \* world.accumulator, in units of 1/60 ms
  lastCallTime,    \* whether world.lastCallTime is set
  subSteps,        \* history: sub-steps made by the last PhysicsWorld.update
  boundaryWarning, \* boundaryWarning.style.display
  zoomPresses,     \* history: physical presses of a zoom key so far
  zoomAdvances,    \* history: zoom mode changes so far
  events,          \* number of input events so far (bounded)
  queryResult,     \* the values returned by the last boundary-distance query
  twin,            \* a second kinematic craft, run beside the first
  overshoot,       \* history: the axes on which the camera has passed its target
  lastEvent,       \* history: the last input event dispatched, and the mouse axes it found
  \* --- driver ---
  variant,         \* which craft runs: "kinematic" (Spaceship.ts) or "rigid" (main.ts)
  cameraKind,      \* which camera runs: "spring" (CameraController.ts) or "lerp"
  controls,        \* the SpaceshipControls handed to the last update call
  deltaTime,       \* the deltaTime handed to the last update call (ms)
  frameStart,      \* history: the craft state when the current frame began
  pc,              \* position in the frame: next call of the frame driver
  frame            \* number of calls made so far (bounded)

craftVars == <<position, velocity, acceleration, rotation, targetRotation, currentSpeed>>
rigidVars == <<rbForce, rbTorque, rbVelocity>>
gameVars == <<keys, spaceshipControls, cameraDebugControls, isPointerLocked,
              accumulator, lastCallTime, subSteps, boundaryWarning, zoomPresses,
              zoomAdvances, events, queryResult, twin, overshoot, lastEvent>>
cameraVars == <<cameraOffset, currentZoomMode, lastZoomToggleState, currentPosition,
                cameraVelocity, targetPosition, lookAheadPosition, targetRoll, currentRoll>>
vars == <<position, velocity, acceleration, rotation, targetRotation, currentSpeed,
          rbForce, rbTorque, rbVelocity,
          cameraOffset, currentZoomMode, lastZoomToggleState, currentPosition,
          cameraVelocity, targetPosition, lookAheadPosition, targetRoll, currentRoll,
          keys, spaceshipControls, cameraDebugControls, isPointerLocked,
          accumulator, lastCallTime, subSteps, boundaryWarning, zoomPresses,
          zoomAdvances, events, queryResult, twin, overshoot, lastEvent,
          variant, cameraKind, controls, deltaTime, frameStart, pc, frame>>

-----------------------------------------------------------------------------
(* Arithmetic *)

Abs(n) == IF n < 0 THEN -n ELSE n

Min(a, b) == IF a < b THEN a ELSE b

Max(a, b) == IF a > b THEN a ELSE b

\* the sign of n: -1, 0 or 1
Sign(n) == IF n < 0 THEN -1 ELSE IF n > 0 THEN 1 ELSE 0

\* n / d rounded to the nearest integer, ties to even (d > 0).
RoundDiv(n, d) ==
  LET a == Abs(n)
      q == a \div d
      r == a % d
      m == IF 2 * r > d \/ (2 * r = d /\ q % 2 = 1) THEN q + 1 ELSE q
  IN  IF n < 0 THEN -m ELSE m

\* x * (num / den), rounded: one floating-point multiplication by a constant.
Mul(x, num, den) == RoundDiv(x * num, den)

RECURSIVE SqrtSearch(_, _, _)
SqrtSearch(n, lo, hi) ==
  IF lo >= hi THEN lo
  ELSE LET mid == (lo + hi + 1) \div 2
       IN  IF mid * mid <= n THEN SqrtSearch(n, mid, hi) ELSE SqrtSearch(n, lo, mid - 1)

\* Math.sqrt, rounded to the nearest representable value (n < 2^30).
Sqrt(n) ==
  LET r == SqrtSearch(n, 0, 32767)
  IN  IF n - r * r > r THEN r + 1 ELSE r

\* Math.PI in milliradians
PI == 3142

\* THREE.Vector3 operations
Vec(x, y, z) == <<x, y, z>>

Zero3 == <<0, 0, 0>>

VAdd(a, b) == <<a[1] + b[1], a[2] + b[2], a[3] + b[3]>>

VSub(a, b) == <<a[1] - b[1], a[2] - b[2], a[3] - b[3]>>

VScale(a, num, den) == <<Mul(a[1], num, den), Mul(a[2], num, den), Mul(a[3], num, den)>>

LengthSq(a) == a[1] * a[1] + a[2] * a[2] + a[3] * a[3]

Length(a) == Sqrt(LengthSq(a))

\* THREE.MathUtils.lerp(x, y, t) = (1 - t) * x + t * y, with t = tnum / tden
Lerp(x, y, tnum, tden) == Mul(x, tden - tnum, tden) + Mul(y, tnum, tden)

-----------------------------------------------------------------------------
(* Trigonometry and rotation (Math.sin / Math.cos inside THREE.Euler,       *)
(* THREE.Quaternion.setFromEuler and Vector3.applyQuaternion)               *)

\* One Horner step of a Taylor series: 1 - x2 * f / k, with x2 (the squared
\* angle) and f scaled by 10000.
Horner(x2, f, k) == 10000 - RoundDiv(x2 * f, k * 10000)

\* the squared angle, scaled by 10000 (x in milliradians)
AngleSq(x) == RoundDiv(x * x, 100)

\* sin of an angle in [-PI/2, PI/2], scaled by 10000:
\* x - x^3/3! + x^5/5! - x^7/7! + x^9/9!
SinPoly(x) ==
  LET x2 == AngleSq(x)
  IN  RoundDiv(x * Horner(x2, Horner(x2, Horner(x2, Horner(x2, 10000, 72), 42), 20), 6), 1000)

\* cos of an angle in [-PI/2, PI/2], scaled by 10000:
\* 1 - x^2/2! + x^4/4! - x^6/6! + x^8/8!
CosPoly(x) ==
  LET x2 == AngleSq(x)
  IN  Horner(x2, Horner(x2, Horner(x2, Horner(x2, 10000, 56), 30), 12), 2)

\* an angle reduced to [-PI, PI)
Reduce(a) == ((a + PI) % (2 * PI)) - PI

\* Math.sin
Sin(a) ==
  LET r == Reduce(a)
  IN  IF r > PI \div 2 THEN SinPoly(PI - r)
      ELSE IF r < -(PI \div 2) THEN SinPoly(-PI - r)
      ELSE SinPoly(r)

\* Math.cos
Cos(a) ==
  LET r == Reduce(a)
  IN  IF Abs(r) > PI \div 2 THEN -CosPoly(PI - Abs(r)) ELSE CosPoly(r)

\* product of two values scaled by 10000
Prod(p, q) == RoundDiv(p * q, 10000)

\* v.applyQuaternion(group.quaternion): group.quaternion is kept equal to
\* the rotation of the Euler angles e (order XYZ), so the result is
\* Rx(e.x) * Ry(e.y) * Rz(e.z) * v (THREE.Matrix4.makeRotationFromEuler).
Rotate(v, e) ==
  LET a == Cos(e[1])  b == Sin(e[1])
      c == Cos(e[2])  d == Sin(e[2])
      ee == Cos(e[3]) f == Sin(e[3])
      m11 == Prod(c, ee)
      m12 == -Prod(c, f)
      m13 == d
      m21 == Prod(a, f) + Prod(Prod(b, ee), d)
      m22 == Prod(a, ee) - Prod(Prod(b, f), d)
      m23 == -Prod(b, c)
      m31 == Prod(b, f) - Prod(Prod(a, ee), d)
      m32 == Prod(b, ee) + Prod(Prod(a, f), d)
      m33 == Prod(a, c)
  IN  << Prod(m11, v[1]) + Prod(m12, v[2]) + Prod(m13, v[3]),
         Prod(m21, v[1]) + Prod(m22, v[2]) + Prod(m23, v[3]),
         Prod(m31, v[1]) + Prod(m32, v[2]) + Prod(m33, v[3]) >>

-----------------------------------------------------------------------------
(* Chase camera: CameraController.ts (spring-damper follow with look-ahead) *)
(* and its predecessor (direct lerp behind the craft).  Both share the zoom *)
(* and height handling.                                                     *)

\* Camera constraints (units of 0.0001)
MIN_HEIGHT == 5000

MAX_HEIGHT == 100000

DEBUG_SPEED == 2000

\* enum ZoomMode
CLOSE == 0

STANDARD == 1

FAR == 2

\* ZOOM_DISTANCES[mode]
ZOOM_DISTANCES(mode) ==
  CASE mode = CLOSE -> -50000
    [] mode = STANDARD -> -100000
    [] mode = FAR -> -200000

\* Alternative reading: the toggle is read as a level, not as an edge
ZoomPressedWhileHeld(zoomToggle, last) == zoomToggle

\* if (debugControls.zoomToggle && !this.lastZoomToggleState): a key press,
\* not a hold
ZoomPressed(zoomToggle, last) == zoomToggle /\ ~last

\* this.currentZoomMode = (this.currentZoomMode + 1) % 3
NextZoomMode(mode) == (mode + 1) % 3

\* offset.z after the zoom handling of one update call
ZoomOffsetZ(z, mode, zoomToggle, last) ==
  IF ZoomPressed(zoomToggle, last) THEN ZOOM_DISTANCES(NextZoomMode(mode)) ELSE z

\* offset.y after the height handling of one update call: up first, then down
HeightUp(y, up) == IF up THEN Min(y + DEBUG_SPEED, MAX_HEIGHT) ELSE y

HeightDown(y, down) == IF down THEN Max(y - DEBUG_SPEED, MIN_HEIGHT) ELSE y

AdjustHeight(y, up, down) == HeightDown(HeightUp(y, up), down)

\* Vector3.lerp(v, alpha): this += (v - this) * alpha
VLerp(a, b, num, den) == VAdd(a, VScale(VSub(b, a), num, den))

\* Alternative reading: CAMERA_DAMPING is the share of the velocity removed
DampVelocityRemoved(v) == VScale(v, 85, 100)

\* this.cameraVelocity.multiplyScalar(this.CAMERA_DAMPING), CAMERA_DAMPING 0.15
DampVelocity(v) == VScale(v, 15, 100)

\* constructor(camera)
CameraInit ==
  /\ currentZoomMode = STANDARD
  /\ lastZoomToggleState = FALSE
  /\ cameraOffset = <<0, 30000, ZOOM_DISTANCES(STANDARD)>>
  /\ targetPosition = Zero3
  /\ currentPosition = Zero3
  /\ cameraVelocity = Zero3
  /\ lookAheadPosition = Zero3
  /\ targetRoll = 0
  /\ currentRoll = 0

\* CameraController.update(spaceship, debugControls)
CameraUpdate(up, down, zoomToggle) ==
  LET spaceshipPos == position
      spaceshipVelocity == velocity
      offset == << cameraOffset[1],
                   AdjustHeight(cameraOffset[2], up, down),
                   ZoomOffsetZ(cameraOffset[3], currentZoomMode, zoomToggle,
                               lastZoomToggleState) >>
      spaceshipRoll == rotation[3]
  IN  /\ currentZoomMode' = IF ZoomPressed(zoomToggle, lastZoomToggleState)
                            THEN NextZoomMode(currentZoomMode)
                            ELSE currentZoomMode
      /\ lastZoomToggleState' = zoomToggle
      /\ cameraOffset' = offset
      /\ IF cameraKind = "spring"
         THEN LET target == VAdd(spaceshipPos, offset)
                  spring == VScale(VSub(target, currentPosition), 8, 100)
                  vel == DampVelocity(VAdd(cameraVelocity, spring))
              IN  /\ lookAheadPosition' = VAdd(spaceshipPos, VScale(spaceshipVelocity, 3, 10))
                  /\ targetPosition' = target
                  /\ cameraVelocity' = vel
                  /\ currentPosition' = VAdd(currentPosition, vel)
                  /\ targetRoll' = Mul(spaceshipRoll, 5, 10)
                  /\ currentRoll' = Lerp(currentRoll, Mul(spaceshipRoll, 5, 10), 1, 10)
         ELSE LET target == VAdd(spaceshipPos, Rotate(offset, rotation))
              IN  /\ targetPosition' = target
                  /\ currentPosition' = VLerp(currentPosition, target, 1, 10)
                  /\ targetRoll' = Mul(spaceshipRoll, 3, 10)
                  /\ currentRoll' = Lerp(currentRoll, Mul(spaceshipRoll, 3, 10), 1, 10)
                  /\ UNCHANGED <<lookAheadPosition, cameraVelocity>>

\* CameraController.setCameraOffset(offset)
SetCameraOffset(offset) ==
  /\ cameraOffset' = offset
  /\ UNCHANGED <<currentZoomMode, lastZoomToggleState, currentPosition, cameraVelocity,
                 targetPosition, lookAheadPosition, targetRoll, currentRoll>>

-----------------------------------------------------------------------------
(* Kinematic craft: Spaceship.update (Spaceship.ts)                          *)

\* Physics constants: MAX_SPEED 0.5, ACCELERATION 0.02 (units of 0.0001),
\* DRAG_COEFFICIENT 0.95 (in hundredths), MOUSE_SENSITIVITY 0.003 (in
\* thousandths), BANKING_AMOUNT PI/6 = 0.5236 (in ten-thousandths)
MAX_SPEED == 5000

ACCELERATION == 200

DRAG_COEFFICIENT == 95

MOUSE_SENSITIVITY == 3

BANKING_AMOUNT == 5236

\* mouse axis (units of 0.1) * MOUSE_SENSITIVITY, in milliradians
MouseAngle(m) == Mul(m, MOUSE_SENSITIVITY, 10)

\* Alternative reading: the pitch target is not clamped
ClampPitchOff(x) == x

\* Math.max(-Math.PI / 2, Math.min(Math.PI / 2, x))
ClampPitch(x) == Max(-(PI \div 2), Min(PI \div 2, x))

\* targetRotation after the mouse handling
NextTargetRotation(t, c) ==
  << ClampPitch(t[1] + MouseAngle(c.mouseY)),
     t[2] + MouseAngle(c.mouseX),
     -Mul(MouseAngle(c.mouseX), BANKING_AMOUNT, 10000) >>

\* group.rotation after the smooth rotation interpolation
NextRotation(r, t) ==
  << Lerp(r[1], t[1], 1, 10), Lerp(r[2], t[2], 1, 10), Lerp(r[3], t[3], 5, 100) >>

\* new THREE.Vector3(0, 0, 1).applyQuaternion(this.group.quaternion)
ForwardDirection(r) == Rotate(<<0, 0, 10000>>, r)

\* forwardDirection.multiplyScalar(this.ACCELERATION): scales the vector in
\* place and returns that same vector
ForwardThrust(fd) == VScale(fd, ACCELERATION, 10000)

\* forwardDirection.multiplyScalar(-this.ACCELERATION * 0.5), applied to
\* whatever forwardDirection holds at that point
BackwardThrust(fd) == VScale(fd, -(ACCELERATION \div 2), 10000)

\* this.acceleration after the reset and the two thrust branches; fd is the
\* forwardDirection vector object, which the forward branch has already
\* scaled when the backward branch reads it
ThrustAcceleration(fd, c) ==
  LET fd1 == IF c.forward THEN ForwardThrust(fd) ELSE fd
      a1 == IF c.forward THEN fd1 ELSE Zero3
  IN  IF c.backward THEN VAdd(a1, BackwardThrust(fd1)) ELSE a1

\* Vector3.normalize(): divideScalar(length() || 1) = multiplyScalar(1 / len).
\* A double holds 1 / len to the same relative precision as the components,
\* so each quotient is rounded once at the resolution of the result.
Normalize(v) ==
  LET len == Length(v)
      s == IF len = 0 THEN 10000 ELSE len
  IN  <<RoundDiv(v[1] * 10000, s), RoundDiv(v[2] * 10000, s), RoundDiv(v[3] * 10000, s)>>

\* Alternative reading: the speed limit is left out
LimitSpeedOff(v) == v

\* if (velocity.length() > MAX_SPEED) velocity.normalize().multiplyScalar(MAX_SPEED)
LimitSpeed(v) ==
  IF Length(v) > MAX_SPEED THEN VScale(Normalize(v), MAX_SPEED, 10000) ELSE v

\* Alternative reading: drag is applied before the acceleration is added
NextVelocityDragFirst(v, a) == LimitSpeed(VAdd(VScale(v, DRAG_COEFFICIENT, 100), a))

\* velocity after acceleration, drag and the speed limit
NextVelocity(v, a) == LimitSpeed(VScale(VAdd(v, a), DRAG_COEFFICIENT, 100))

\* constructor()
ShipInit ==
  /\ velocity = Zero3
  /\ acceleration = Zero3
  /\ position = Zero3
  /\ targetRotation = Zero3
  /\ rotation = Zero3
  /\ currentSpeed = 0

\* Spaceship.update(controls, deltaTime): deltaTime is never read
ShipUpdate(c, dt) ==
  LET t == NextTargetRotation(targetRotation, c)
      r == NextRotation(rotation, t)
      a == ThrustAcceleration(ForwardDirection(r), c)
      v == NextVelocity(velocity, a)
  IN  /\ targetRotation' = t
      /\ rotation' = r
      /\ acceleration' = a
      /\ velocity' = v
      /\ currentSpeed' = Length(v)
      /\ position' = VAdd(position, v)

-----------------------------------------------------------------------------
(* Boundary resolver: CollisionSystem.checkCollision                         *)

\* this.boundaries, this.spaceshipRadius (units of 0.0001)
BOUNDARY_MIN == -5000000

BOUNDARY_MAX == 5000000

boundaries ==
  [min |-> <<BOUNDARY_MIN, BOUNDARY_MIN, BOUNDARY_MIN>>,
   max |-> <<BOUNDARY_MAX, BOUNDARY_MAX, BOUNDARY_MAX>>]

spaceshipRadius == 15000

\* Alternative reading: the min-face test with <= for <
HitsMinInclusive(p, i) == p[i] - spaceshipRadius <= boundaries.min[i]

\* the two face tests of one axis
HitsMin(p, i) == p[i] - spaceshipRadius < boundaries.min[i]

\* Alternative reading: the max-face test with >= for >
HitsMaxInclusive(p, i) == ~HitsMin(p, i) /\ p[i] + spaceshipRadius >= boundaries.max[i]

HitsMax(p, i) == ~HitsMin(p, i) /\ p[i] + spaceshipRadius > boundaries.max[i]

\* Alternative reading: the max face is not corrected
CorrectedCoordMinOnly(p, i) ==
  IF HitsMin(p, i) THEN boundaries.min[i] + spaceshipRadius ELSE p[i]

\* correctedPosition on axis i
CorrectedCoord(p, i) ==
  IF HitsMin(p, i) THEN boundaries.min[i] + spaceshipRadius
  ELSE IF HitsMax(p, i) THEN boundaries.max[i] - spaceshipRadius
  ELSE p[i]

\* Alternative reading: the velocity component is not clamped
ClampedVelocityKept(p, v, i) == v[i]

\* spaceship.velocity on axis i after the axis check
ClampedVelocity(p, v, i) ==
  IF HitsMin(p, i) THEN Max(0, v[i])
  ELSE IF HitsMax(p, i) THEN Min(0, v[i])
  ELSE v[i]

\* the collision flag
Collision(p) == \E i \in 1..3 : HitsMin(p, i) \/ HitsMax(p, i)

\* spaceship.velocity.multiplyScalar(0.3)
Bounce(v) == VScale(v, 3, 10)

\* Alternative reading: the bounce factor is applied once per corrected axis
ResolvedVelocityPerAxis(p, v) ==
  LET cv == <<ClampedVelocity(p, v, 1), ClampedVelocity(p, v, 2), ClampedVelocity(p, v, 3)>>
      b1 == IF HitsMin(p, 1) \/ HitsMax(p, 1) THEN Bounce(cv) ELSE cv
      b2 == IF HitsMin(p, 2) \/ HitsMax(p, 2) THEN Bounce(b1) ELSE b1
  IN  IF HitsMin(p, 3) \/ HitsMax(p, 3) THEN Bounce(b2) ELSE b2

\* spaceship.velocity after the call
ResolvedVelocity(p, v) ==
  LET cv == <<ClampedVelocity(p, v, 1), ClampedVelocity(p, v, 2), ClampedVelocity(p, v, 3)>>
  IN  IF Collision(p) THEN Bounce(cv) ELSE cv

\* spaceship.position after the call
ResolvedPosition(p) ==
  IF Collision(p)
  THEN <<CorrectedCoord(p, 1), CorrectedCoord(p, 2), CorrectedCoord(p, 3)>>
  ELSE p

\* CollisionSystem.checkCollision(spaceship)
CheckCollision ==
  /\ position' = ResolvedPosition(position)
  /\ velocity' = ResolvedVelocity(position, velocity)
  /\ UNCHANGED <<acceleration, rotation, targetRotation, currentSpeed>>

\* this.warningDistance (units of 0.0001)
warningDistance == 50000

\* the smallest of six numbers
Min6(a, b, c, d, e, f) == Min(Min(Min(a, b), Min(c, d)), Min(e, f))

\* Alternative reading: the distance is not floored at zero
GetDistanceToBoundaryUnfloored(p) ==
  LET distanceToMin == VSub(p, boundaries.min)
      distanceToMax == VSub(boundaries.max, p)
  IN  Min6(distanceToMin[1], distanceToMin[2], distanceToMin[3],
           distanceToMax[1], distanceToMax[2], distanceToMax[3])

\* CollisionSystem.getDistanceToBoundary(position)
GetDistanceToBoundary(p) ==
  LET distanceToMin == VSub(p, boundaries.min)
      distanceToMax == VSub(boundaries.max, p)
      minDistance == Min6(distanceToMin[1], distanceToMin[2], distanceToMin[3],
                          distanceToMax[1], distanceToMax[2], distanceToMax[3])
  IN  Max(0, minDistance)

\* CollisionSystem.isNearBoundary(position)
IsNearBoundary(p) == GetDistanceToBoundary(p) < warningDistance

-----------------------------------------------------------------------------
(* Rigid-body craft: Spaceship.update of main.ts                             *)

\* THRUST_POWER 150, ROTATION_TORQUE 25, MOUSE_THRESHOLD 0.1 (mouse units)
THRUST_POWER == 150

ROTATION_TORQUE == 25

MOUSE_THRESHOLD == 1

\* Math.abs(m) > MOUSE_THRESHOLD ? m : 0
DeadZone(m) == IF Abs(m) > MOUSE_THRESHOLD THEN m ELSE 0

\* physicsBody.force after the reset and the two applyLocalForce calls
\* at the body origin, in the body's frame
ThrustForce(c) ==
  LET f1 == IF c.forward THEN <<0, 0, THRUST_POWER>> ELSE Zero3
  IN  IF c.backward THEN VAdd(f1, <<0, 0, -(THRUST_POWER \div 2)>>) ELSE f1

\* mouse axis * MOUSE_SENSITIVITY * ROTATION_TORQUE, in units of 0.00001
AxisTorque(m) == m * MOUSE_SENSITIVITY * ROTATION_TORQUE * 10

\* Alternative reading: an axis exactly at the threshold counts as active
ControlTorqueInclusive(c) ==
  LET mx == c.mouseX
      my == c.mouseY
  IN  << IF Abs(my) >= MOUSE_THRESHOLD THEN -AxisTorque(my) ELSE 0,
         IF Abs(mx) >= MOUSE_THRESHOLD THEN -AxisTorque(mx) ELSE 0,
         IF Abs(mx) >= MOUSE_THRESHOLD THEN AxisTorque(mx) \div 2 ELSE 0 >>

\* physicsBody.torque after the reset and the yaw, pitch and roll terms
ControlTorque(c) ==
  LET mx == DeadZone(c.mouseX)
      my == DeadZone(c.mouseY)
  IN  << IF Abs(my) > MOUSE_THRESHOLD THEN -AxisTorque(my) ELSE 0,
         IF Abs(mx) > MOUSE_THRESHOLD THEN -AxisTorque(mx) ELSE 0,
         IF Abs(mx) > MOUSE_THRESHOLD THEN AxisTorque(mx) \div 2 ELSE 0 >>

\* Spaceship.update(controls, deltaTime) of the rigid-body craft; the pose
\* and velocity of physicsBody are integrated by the physics engine
RigidUpdate(c, dt) ==
  /\ rbForce' = ThrustForce(c)
  /\ rbTorque' = ControlTorque(c)
  /\ currentSpeed' = Length(rbVelocity)

-----------------------------------------------------------------------------
(* Inputs and bounds *)

\* largest mouse axis of a frame, in units of 0.1
MouseMax == 3000

\* frames of the game loop explored
MaxFrames == 2

\* calls explored when the public methods are called in any order
MaxCalls == 1

\* camera calls explored
MaxCameraCalls == 5

\* the mouse deltas of a frame
MousePairs == {<<0, 0>>, <<MouseMax, MouseMax>>, <<0, -MouseMax>>}

\* the elapsed times of a frame (clock.getDelta()), in milliseconds
DeltaTimes == {0, 17}

\* interface SpaceshipControls
Controls ==
  {[forward |-> f, backward |-> b, mouseX |-> m[1], mouseY |-> m[2]] :
     f \in BOOLEAN, b \in BOOLEAN, m \in MousePairs}

NoControls == [forward |-> FALSE, backward |-> FALSE, mouseX |-> 0, mouseY |-> 0]

\* offsets handed to setCameraOffset
OffsetInputs == {<<0, 30000, -100000>>, <<0, 200000, -70000>>}

\* Where a game starts to be observed: the craft as constructed, or at rest
\* where it has flown to, just inside a face (or two) of the play volume and
\* heading for it (facing +Z, +X, -Y, and 0.784 rad between +Z and +X).
KinematicStarts ==
  { [pos |-> Zero3, rot |-> Zero3],
    [pos |-> <<0, 0, 4984600>>, rot |-> Zero3],
    [pos |-> <<0, 0, -4984900>>, rot |-> Zero3],
    [pos |-> <<4984600, 0, 0>>, rot |-> <<0, PI \div 2, 0>>],
    [pos |-> <<0, -4984600, 0>>, rot |-> <<PI \div 2, 0, 0>>],
    [pos |-> <<4984800, 0, 4984800>>, rot |-> <<0, 784, 0>>] }

\* physicsBody.velocity as the physics engine may have left it
BodyVelocities == {Zero3, <<0, 0, 30000>>, <<-20000, 10000, 20000>>}

RigidInit ==
  /\ rbForce = Zero3
  /\ rbTorque = Zero3
  /\ rbVelocity \in BodyVelocities

-----------------------------------------------------------------------------
(* Input handler: InputHandler                                               *)

\* the key codes updateControlStates reads
Keys == {"KeyW", "KeyS", "ArrowUp", "ArrowDown", "ArrowLeft", "ArrowRight"}

ZoomKeys == {"ArrowLeft", "ArrowRight"}

\* InputHandler.mouseSensitivity, 0.8 (in tenths)
mouseSensitivity == 8

NoDebugControls == [up |-> FALSE, down |-> FALSE, zoomToggle |-> FALSE]

\* updateControlStates: the camera debug controls for the pressed keys k
DebugControlStates(k) ==
  [up |-> "ArrowUp" \in k, down |-> "ArrowDown" \in k,
   zoomToggle |-> ("ArrowLeft" \in k \/ "ArrowRight" \in k)]

\* updateControlStates: the thrust flags for the pressed keys k; the mouse
\* axes of the controls object sc are left as they are
ThrustControlStates(sc, k) ==
  [sc EXCEPT !.forward = "KeyW" \in k, !.backward = "KeyS" \in k]

\* updateControlStates()
UpdateControlStates(k) ==
  /\ spaceshipControls' = ThrustControlStates(spaceshipControls, k)
  /\ cameraDebugControls' = DebugControlStates(k)

\* the keydown listener (an already pressed key repeats its keydown)
OnKeyDown(code) ==
  /\ keys' = keys \cup {code}
  /\ UpdateControlStates(keys \cup {code})
  /\ UNCHANGED isPointerLocked

\* the keyup listener
OnKeyUp(code) ==
  /\ keys' = keys \ {code}
  /\ UpdateControlStates(keys \ {code})
  /\ UNCHANGED isPointerLocked

\* Alternative reading: the listener takes the movement whether or not the
\* pointer is locked
OnMouseMoveUnlocked(movementX, movementY) ==
  /\ spaceshipControls' =
       [spaceshipControls EXCEPT !.mouseX = movementX * mouseSensitivity,
                                 !.mouseY = movementY * mouseSensitivity]
  /\ UNCHANGED <<keys, cameraDebugControls, isPointerLocked>>

\* the mousemove listener: movement in pixels, axes in units of 0.1
OnMouseMove(movementX, movementY) ==
  /\ spaceshipControls' =
       IF isPointerLocked
       THEN [spaceshipControls EXCEPT !.mouseX = movementX * mouseSensitivity,
                                      !.mouseY = movementY * mouseSensitivity]
       ELSE spaceshipControls
  /\ UNCHANGED <<keys, cameraDebugControls, isPointerLocked>>

\* Alternative reading: the reset leaves the axes as they are
MouseResetOff(sc) == sc

\* the mouse axes after resetMouseMovement()
MouseReset(sc) == [sc EXCEPT !.mouseX = 0, !.mouseY = 0]

\* the pointerlockchange listener; locked: document.pointerLockElement is
\* the canvas
OnPointerLockChange(locked) ==
  /\ isPointerLocked' = locked
  /\ spaceshipControls' = IF locked THEN spaceshipControls ELSE MouseReset(spaceshipControls)
  /\ UNCHANGED <<keys, cameraDebugControls>>

\* no input event yet
NoEvent == [type |-> "none", mouseX |-> 0, mouseY |-> 0]

\* an event of the given type, dispatched to its listener in the current state
Dispatched(type) ==
  [type |-> type, mouseX |-> spaceshipControls.mouseX, mouseY |-> spaceshipControls.mouseY]

\* constructor(canvas)
InputInit ==
  /\ keys = {}
  /\ spaceshipControls = NoControls
  /\ cameraDebugControls = NoDebugControls
  /\ isPointerLocked = FALSE

-----------------------------------------------------------------------------
(* Physics world: PhysicsWorld.update, and the step loop of the engine       *)
(* behind world.fixedStep(dt, maxSubSteps).  Times are in units of 1/60 ms, *)
(* so that the fixed step 1/60 s is 1000 units and 1 ms is 60.              *)

\* PhysicsWorld.fixedTimeStep = 1 / 60 s
fixedTimeStep == 1000

\* PhysicsWorld.maxSubSteps
maxSubSteps == 3

\* the sub-steps the loop
\*   while (accumulator >= dt && substeps < maxSub) { ...; substeps++ }
\* can make at most; maxSub is a real number given in ms (1000 = 1.0)
SubStepLimit(acc, dt, maxSubMs) == Min(acc \div dt, (maxSubMs + 999) \div 1000)

\* world.step(dt, timeSinceLastCalled, maxSub) making n sub-steps: the loop
\* also stops early when its own run time passes dt (n below the limit)
WorldStep(dt, timeSinceLastCalled, maxSubMs, n) ==
  LET acc == accumulator + timeSinceLastCalled
      limit == SubStepLimit(acc, dt, maxSubMs)
  IN  /\ IF limit = 0 THEN n = 0 ELSE (n >= 1 /\ n <= limit)
      /\ subSteps' = n
      /\ accumulator' = acc % dt

\* world.fixedStep(dt, maxSub): one plain step on the first call, then
\* world.step with the time since the last call
FixedStep(dt, maxSubMs, elapsed, n) ==
  /\ IF lastCallTime
     THEN WorldStep(dt, elapsed, maxSubMs, n)
     ELSE n = 1 /\ subSteps' = 1 /\ UNCHANGED accumulator
  /\ lastCallTime' = TRUE

\* PhysicsWorld.update(deltaTime): this.world.fixedStep(this.fixedTimeStep,
\* deltaTime, this.maxSubSteps).  fixedStep takes (dt, maxSubSteps), so
\* deltaTime (in seconds) is what bounds the sub-steps and the third
\* argument is dropped.  The time since the last call is the frame time.
PhysicsWorldUpdate(dt, n) == FixedStep(fixedTimeStep, dt, dt * 60, n)

\* new PhysicsWorld()
WorldInit ==
  /\ accumulator = 0
  /\ lastCallTime = FALSE
  /\ subSteps = 0

\* no boundary-distance query made yet
NoQuery == [distance |-> 0, near |-> FALSE]

\* no second craft
NoTwin == [deltaTime |-> 0]

\* the game as constructed
GameInit ==
  /\ InputInit
  /\ WorldInit
  /\ boundaryWarning = "none"
  /\ zoomPresses = 0
  /\ zoomAdvances = 0
  /\ events = 0
  /\ queryResult = NoQuery
  /\ twin = NoTwin
  /\ overshoot = {}
  /\ lastEvent = NoEvent

-----------------------------------------------------------------------------
(* The game loop: each frame calls Spaceship.update, then (kinematic craft) *)
(* CollisionSystem.checkCollision.  The camera reads the craft and never    *)
(* writes it; it is explored on its own in SpecCamera.                      *)

\* Craft State: position, orientation, velocity and speed of the craft
CraftState ==
  IF variant = "kinematic"
  THEN [position |-> position, rotation |-> rotation, velocity |-> velocity,
        speed |-> currentSpeed]
  ELSE [position |-> Zero3, rotation |-> Zero3, velocity |-> rbVelocity,
        speed |-> currentSpeed]

Init ==
  /\ variant \in {"kinematic", "rigid"}
  /\ cameraKind = "spring"
  /\ CameraInit
  /\ GameInit
  /\ RigidInit
  /\ velocity = Zero3
  /\ acceleration = Zero3
  /\ currentSpeed = Length(rbVelocity)
  /\ \E s \in KinematicStarts :
        /\ position = s.pos
        /\ rotation = s.rot
        /\ targetRotation = s.rot
  /\ (variant = "rigid" => position = Zero3 /\ rotation = Zero3)
  /\ (variant = "kinematic" => rbVelocity = Zero3)
  /\ controls = NoControls
  /\ deltaTime = 0
  /\ frameStart = CraftState
  /\ pc = "update"
  /\ frame = 0

FrameUpdate ==
  /\ variant = "kinematic"
  /\ pc = "update"
  /\ frame < MaxFrames
  /\ \E c \in Controls, dt \in DeltaTimes :
        ShipUpdate(c, dt) /\ controls' = c /\ deltaTime' = dt
  /\ frameStart' = CraftState
  /\ pc' = "collide"
  /\ UNCHANGED <<rigidVars, cameraVars, gameVars, variant, cameraKind, frame>>

FrameCollide ==
  /\ variant = "kinematic"
  /\ pc = "collide"
  /\ CheckCollision
  /\ pc' = "update"
  /\ frame' = frame + 1
  /\ UNCHANGED <<rigidVars, cameraVars, gameVars, variant, cameraKind, controls, deltaTime,
                 frameStart>>

FrameRigid ==
  /\ variant = "rigid"
  /\ frame < MaxFrames
  /\ \E c \in Controls, dt \in DeltaTimes :
        RigidUpdate(c, dt) /\ controls' = c /\ deltaTime' = dt
  /\ frameStart' = CraftState
  /\ frame' = frame + 1
  /\ UNCHANGED <<position, velocity, acceleration, rotation, targetRotation,
                 rbVelocity, cameraVars, gameVars, variant, cameraKind, pc>>

Next == FrameUpdate \/ FrameCollide \/ FrameRigid

Spec == Init /\ [][Next]_vars

-----------------------------------------------------------------------------
(* The camera on its own: update and setCameraOffset called in any order    *)
(* on a camera as constructed, following a craft that holds its state.      *)

\* craft states the camera may be following
FollowedCrafts ==
  { [pos |-> Zero3, vel |-> Zero3, rot |-> Zero3],
    [pos |-> <<100000, 0, -50000>>, vel |-> <<0, 0, 3800>>, rot |-> <<0, 300, -200>>] }

InitCamera ==
  /\ variant = "kinematic"
  /\ cameraKind \in {"spring", "lerp"}
  /\ CameraInit
  /\ GameInit
  /\ RigidInit /\ rbVelocity = Zero3
  /\ acceleration = Zero3
  /\ \E s \in FollowedCrafts :
        /\ position = s.pos
        /\ velocity = s.vel
        /\ rotation = s.rot
        /\ targetRotation = s.rot
        /\ currentSpeed = Length(s.vel)
  /\ controls = NoControls
  /\ deltaTime = 0
  /\ frameStart = CraftState
  /\ pc = "camera"
  /\ frame = 0

CallCameraUpdate ==
  /\ frame < MaxCameraCalls
  /\ \E up \in BOOLEAN, down \in BOOLEAN, zoomToggle \in BOOLEAN :
        CameraUpdate(up, down, zoomToggle)
  /\ frame' = frame + 1
  /\ UNCHANGED <<craftVars, rigidVars, gameVars, variant, cameraKind, controls, deltaTime,
                 frameStart, pc>>

CallSetCameraOffset ==
  /\ frame < MaxCameraCalls
  /\ \E offset \in OffsetInputs : SetCameraOffset(offset)
  /\ frame' = frame + 1
  /\ UNCHANGED <<craftVars, rigidVars, gameVars, variant, cameraKind, controls, deltaTime,
                 frameStart, pc>>

NextCamera == CallCameraUpdate \/ CallSetCameraOffset

SpecCamera == InitCamera /\ [][NextCamera]_vars

-----------------------------------------------------------------------------
(* The public methods on their own: Spaceship.update and                    *)
(* CollisionSystem.checkCollision called in any order on a craft whose      *)
(* public position and velocity fields hold any of the input values.        *)

\* a coordinate: on the min face, inside it by less than the craft radius,
\* the centre, inside the max face by exactly the craft radius, and beyond
\* the max face
AxisInputs == {-5000000, -4990000, 0, 4985000, 5000001}

\* velocities: at rest, below MAX_SPEED and above it, towards every face
VelocityInputs ==
  {Zero3, <<3000, 3000, 3000>>, <<-3000, -3000, -3000>>, <<3000, -3000, 0>>,
   <<10459, -135, 19799>>}

InitCalls ==
  /\ variant = "kinematic"
  /\ cameraKind = "spring"
  /\ CameraInit
  /\ GameInit
  /\ RigidInit /\ rbVelocity = Zero3
  /\ position \in AxisInputs \X AxisInputs \X AxisInputs
  /\ velocity \in VelocityInputs
  /\ acceleration = Zero3
  /\ rotation = Zero3
  /\ targetRotation = Zero3
  /\ currentSpeed = Length(velocity)
  /\ controls = NoControls
  /\ deltaTime = 0
  /\ frameStart = CraftState
  /\ pc = "init"
  /\ frame = 0

CallUpdate ==
  /\ frame < MaxCalls
  /\ \E c \in Controls, dt \in DeltaTimes :
        ShipUpdate(c, dt) /\ controls' = c /\ deltaTime' = dt
  /\ pc' = "updated"
  /\ frame' = frame + 1
  /\ UNCHANGED <<rigidVars, cameraVars, gameVars, variant, cameraKind, frameStart>>

CallCheckCollision ==
  /\ frame < MaxCalls
  /\ CheckCollision
  /\ pc' = "checked"
  /\ frame' = frame + 1
  /\ UNCHANGED <<rigidVars, cameraVars, gameVars, variant, cameraKind, controls, deltaTime,
                 frameStart>>

NextCalls == CallUpdate \/ CallCheckCollision

SpecCalls == InitCalls /\ [][NextCalls]_vars

-----------------------------------------------------------------------------
(* The rigid-body craft on its own: Spaceship.update of main.ts called with *)
(* mouse axes around the dead-zone threshold.                               *)

\* mouse axes: none, exactly at the threshold, one step above it, and large
RigidMouseAxes ==
  {0, MOUSE_THRESHOLD, -MOUSE_THRESHOLD, MOUSE_THRESHOLD + 1, -(MOUSE_THRESHOLD + 1),
   MouseMax}

RigidControls ==
  {[forward |-> f, backward |-> b, mouseX |-> mx, mouseY |-> my] :
     f \in BOOLEAN, b \in BOOLEAN, mx \in RigidMouseAxes, my \in RigidMouseAxes}

InitRigid ==
  /\ variant = "rigid"
  /\ cameraKind = "spring"
  /\ CameraInit
  /\ GameInit
  /\ RigidInit
  /\ ShipInit
  /\ controls = NoControls
  /\ deltaTime = 0
  /\ frameStart = CraftState
  /\ pc = "rigid"
  /\ frame = 0

CallRigidUpdate ==
  /\ frame < MaxFrames
  /\ \E c \in RigidControls, dt \in DeltaTimes :
        RigidUpdate(c, dt) /\ controls' = c /\ deltaTime' = dt
  /\ frameStart' = CraftState
  /\ frame' = frame + 1
  /\ UNCHANGED <<position, velocity, acceleration, rotation, targetRotation,
                 rbVelocity, cameraVars, gameVars, variant, cameraKind, pc>>

NextRigid == CallRigidUpdate

SpecRigid == InitRigid /\ [][NextRigid]_vars

-----------------------------------------------------------------------------
(* Sustained thrust: the constructed kinematic craft with forward held and  *)
(* the mouse at rest, frame after frame.                                    *)

\* frames of sustained thrust explored
MaxThrustFrames == 130

ForwardHeld == [forward |-> TRUE, backward |-> FALSE, mouseX |-> 0, mouseY |-> 0]

InitThrust ==
  /\ variant = "kinematic"
  /\ cameraKind = "spring"
  /\ CameraInit
  /\ GameInit
  /\ RigidInit /\ rbVelocity = Zero3
  /\ ShipInit
  /\ controls = NoControls
  /\ deltaTime = 0
  /\ frameStart = CraftState
  /\ pc = "update"
  /\ frame = 0

HoldForwardUpdate ==
  /\ pc = "update"
  /\ frame < MaxThrustFrames
  /\ \E dt \in DeltaTimes :
        ShipUpdate(ForwardHeld, dt) /\ controls' = ForwardHeld /\ deltaTime' = dt
  /\ frameStart' = CraftState
  /\ pc' = "collide"
  /\ UNCHANGED <<rigidVars, cameraVars, gameVars, variant, cameraKind, frame>>

NextThrust == HoldForwardUpdate \/ FrameCollide

SpecThrust == InitThrust /\ [][NextThrust]_vars

-----------------------------------------------------------------------------
(* The game of main.ts: input events arrive between frames in any order;    *)
(* each frame is one call of Game.animate.  The pose and velocity of the    *)
(* craft's physics body are integrated by the physics engine; the model     *)
(* holds them at what the engine left at the start of the observation.      *)

\* frames and input events explored
MaxGameFrames == 2

MaxEvents == 3

\* frame times (clock.getDelta()) in ms: none, a 60 Hz frame, and the
\* first frame after the page was in the background for some seconds
GameDeltaTimes == {0, 17, 5000}

\* mouse movements of a mousemove event, in pixels
MouseMoves == {<<5, -3>>, <<-125, 0>>}

\* physicsBody.position as the physics engine may have left it: at the
\* centre, and carried 0.2 into the +Z wall (inner face at 495) by the last
\* step of a flight at full thrust
BodyPositions == {Zero3, <<0, 0, 4952000>>}

InitGame ==
  /\ variant = "rigid"
  /\ cameraKind = "spring"
  /\ CameraInit
  /\ GameInit
  /\ rbForce = Zero3
  /\ rbTorque = Zero3
  /\ rbVelocity \in {Zero3, <<0, 0, 30000>>}
  /\ position \in BodyPositions
  /\ velocity = rbVelocity
  /\ acceleration = Zero3
  /\ rotation = Zero3
  /\ targetRotation = Zero3
  /\ currentSpeed = 0
  /\ controls = NoControls
  /\ deltaTime = 0
  /\ frameStart = CraftState
  /\ pc = "constructed"
  /\ frame = 0

\* what an input event leaves alone
EventFrame ==
  /\ events < MaxEvents
  /\ events' = events + 1
  /\ pc' = "event"
  /\ UNCHANGED <<craftVars, rigidVars, cameraVars, accumulator, lastCallTime, subSteps,
                 boundaryWarning, zoomAdvances, queryResult, twin, overshoot, variant,
                 cameraKind,
                 controls, deltaTime, frameStart, frame>>

KeyDown ==
  /\ \E code \in Keys :
        /\ OnKeyDown(code)
        /\ zoomPresses' = IF code \in ZoomKeys /\ code \notin keys
                          THEN zoomPresses + 1 ELSE zoomPresses
  /\ lastEvent' = Dispatched("keydown")
  /\ EventFrame

KeyUp ==
  /\ \E code \in keys : OnKeyUp(code)
  /\ lastEvent' = Dispatched("keyup")
  /\ UNCHANGED zoomPresses
  /\ EventFrame

MouseMove ==
  /\ \E m \in MouseMoves : OnMouseMove(m[1], m[2])
  /\ lastEvent' = Dispatched("mousemove")
  /\ UNCHANGED zoomPresses
  /\ EventFrame

PointerLockChange ==
  /\ \E locked \in BOOLEAN : OnPointerLockChange(locked)
  /\ lastEvent' = Dispatched("pointerlockchange")
  /\ UNCHANGED zoomPresses
  /\ EventFrame

\* Game.updateUI: the boundary warning
UpdateUI == boundaryWarning' = "none"

\* Game.animate: physicsWorld.update, spaceship.update, cameraController.update,
\* updateUI, inputHandler.resetMouseMovement
Animate ==
  /\ frame < MaxGameFrames
  /\ \E dt \in GameDeltaTimes : \E n \in 0..((dt + 999) \div 1000) :
        /\ PhysicsWorldUpdate(dt, n)
        /\ RigidUpdate(spaceshipControls, dt)
        /\ deltaTime' = dt
  /\ controls' = spaceshipControls
  /\ CameraUpdate(cameraDebugControls.up, cameraDebugControls.down,
                  cameraDebugControls.zoomToggle)
  /\ zoomAdvances' = IF currentZoomMode' # currentZoomMode
                     THEN zoomAdvances + 1 ELSE zoomAdvances
  /\ UpdateUI
  /\ spaceshipControls' = MouseReset(spaceshipControls)
  /\ frameStart' = CraftState
  /\ frame' = frame + 1
  /\ pc' = "animated"
  /\ UNCHANGED <<position, velocity, acceleration, rotation, targetRotation, rbVelocity,
                 keys, cameraDebugControls, isPointerLocked, zoomPresses, events,
                 queryResult, twin, overshoot, lastEvent, variant, cameraKind>>

NextGame == KeyDown \/ KeyUp \/ MouseMove \/ PointerLockChange \/ Animate

SpecGame == InitGame /\ [][NextGame]_vars

-----------------------------------------------------------------------------
(* The boundary-distance queries on their own: getDistanceToBoundary and    *)
(* isNearBoundary called on any of the input positions.                     *)

\* a coordinate: beyond the min face, on it, exactly the warning distance
\* inside it, the centre, just within the warning distance of the max face,
\* nearer still, and on the max face
QueryAxisInputs == {-5000001, -5000000, -4950000, 0, 4950001, 4960000, 5000000}

InitQuery ==
  /\ variant = "kinematic"
  /\ cameraKind = "spring"
  /\ CameraInit
  /\ GameInit
  /\ RigidInit /\ rbVelocity = Zero3
  /\ position \in QueryAxisInputs \X QueryAxisInputs \X QueryAxisInputs
  /\ velocity = Zero3
  /\ acceleration = Zero3
  /\ rotation = Zero3
  /\ targetRotation = Zero3
  /\ currentSpeed = 0
  /\ controls = NoControls
  /\ deltaTime = 0
  /\ frameStart = CraftState
  /\ pc = "init"
  /\ frame = 0

CallBoundaryQueries ==
  /\ pc = "init"
  /\ queryResult' = [distance |-> GetDistanceToBoundary(position),
                     near |-> IsNearBoundary(position)]
  /\ pc' = "queried"
  /\ UNCHANGED <<craftVars, rigidVars, cameraVars, keys, spaceshipControls,
                 cameraDebugControls, isPointerLocked, accumulator, lastCallTime,
                 subSteps, boundaryWarning, zoomPresses, zoomAdvances, events, twin,
                 overshoot, lastEvent,
                 variant, cameraKind, controls, deltaTime, frameStart, frame>>

NextQuery == CallBoundaryQueries

SpecQuery == InitQuery /\ [][NextQuery]_vars

-----------------------------------------------------------------------------
(* Two kinematic craft side by side: both start in the same state and get   *)
(* the same controls on every update call, each with a frame time of its    *)
(* own.                                                                     *)

\* the fields of the first craft as a record
CraftRecord ==
  [targetRotation |-> targetRotation, rotation |-> rotation,
   acceleration |-> acceleration, velocity |-> velocity,
   currentSpeed |-> currentSpeed, position |-> position, deltaTime |-> deltaTime]

InitTwin ==
  /\ variant = "kinematic"
  /\ cameraKind = "spring"
  /\ CameraInit
  /\ InputInit /\ WorldInit
  /\ boundaryWarning = "none" /\ zoomPresses = 0 /\ zoomAdvances = 0 /\ events = 0
  /\ queryResult = NoQuery
  /\ overshoot = {}
  /\ lastEvent = NoEvent
  /\ RigidInit /\ rbVelocity = Zero3
  /\ velocity = Zero3
  /\ acceleration = Zero3
  /\ currentSpeed = 0
  /\ \E s \in KinematicStarts :
        /\ position = s.pos
        /\ rotation = s.rot
        /\ targetRotation = s.rot
  /\ controls = NoControls
  /\ deltaTime = 0
  /\ twin = CraftRecord
  /\ frameStart = CraftState
  /\ pc = "twin"
  /\ frame = 0

\* Alternative reading: the position integrates velocity over the frame
\* time, deltaTime (ms) taken relative to a 60 Hz frame
TwinUpdateTimeScaled(c, dt) ==
  \E t \in {NextTargetRotation(twin.targetRotation, c)} :
  \E r \in {NextRotation(twin.rotation, t)} :
  \E a \in {ThrustAcceleration(ForwardDirection(r), c)} :
  \E v \in {NextVelocity(twin.velocity, a)} :
    twin' = [targetRotation |-> t, rotation |-> r, acceleration |-> a, velocity |-> v,
             currentSpeed |-> Length(v),
             position |-> VAdd(twin.position, VScale(v, dt, 17)), deltaTime |-> dt]

\* Spaceship.update(controls, deltaTime) called on the second craft
TwinUpdate(c, dt) ==
  \E t \in {NextTargetRotation(twin.targetRotation, c)} :
  \E r \in {NextRotation(twin.rotation, t)} :
  \E a \in {ThrustAcceleration(ForwardDirection(r), c)} :
  \E v \in {NextVelocity(twin.velocity, a)} :
    twin' = [targetRotation |-> t, rotation |-> r, acceleration |-> a, velocity |-> v,
             currentSpeed |-> Length(v), position |-> VAdd(twin.position, v),
             deltaTime |-> dt]

UpdateBoth ==
  /\ frame < MaxFrames
  /\ \E c \in Controls, dt1 \in DeltaTimes, dt2 \in DeltaTimes :
        /\ ShipUpdate(c, dt1)
        /\ deltaTime' = dt1
        /\ TwinUpdate(c, dt2)
        /\ controls' = c
  /\ frameStart' = CraftState
  /\ frame' = frame + 1
  /\ UNCHANGED <<rigidVars, cameraVars, keys, spaceshipControls, cameraDebugControls,
                 isPointerLocked, accumulator, lastCallTime, subSteps, boundaryWarning,
                 zoomPresses, zoomAdvances, events, queryResult, overshoot, lastEvent,
                 variant,
                 cameraKind, pc>>

NextTwin == UpdateBoth

SpecTwin == InitTwin /\ [][NextTwin]_vars

-----------------------------------------------------------------------------
(* The camera following a craft at rest: update called frame after frame    *)
(* on a camera as constructed, with no debug key held, so that the target   *)
(* it is steered to stays where it is.                                      *)

\* frames explored
MaxFollowFrames == 700

\* craft at rest the camera may be following
RestingCrafts ==
  { [pos |-> Zero3, rot |-> Zero3],
    [pos |-> <<100000, 0, -50000>>, rot |-> <<0, 300, -200>>],
    [pos |-> <<-25000, 4000, 12000>>, rot |-> <<-400, 2000, 0>>] }

InitFollow ==
  /\ variant = "kinematic"
  /\ cameraKind \in {"spring", "lerp"}
  /\ CameraInit
  /\ GameInit
  /\ RigidInit /\ rbVelocity = Zero3
  /\ velocity = Zero3
  /\ acceleration = Zero3
  /\ currentSpeed = 0
  /\ \E s \in RestingCrafts :
        /\ position = s.pos
        /\ rotation = s.rot
        /\ targetRotation = s.rot
  /\ controls = NoControls
  /\ deltaTime = 0
  /\ frameStart = CraftState
  /\ pc = "follow"
  /\ frame = 0

\* the axes on which a move from cur to next passes the target
PassedAxes(target, cur, next) ==
  {i \in 1..3 : Sign(target[i] - cur[i]) * Sign(target[i] - next[i]) < 0}

\* one frame of the game loop, as far as the camera goes:
\* cameraController.update(spaceship, inputHandler.cameraDebugControls)
FollowFrame ==
  /\ pc = "follow"
  /\ frame < MaxFollowFrames
  /\ CameraUpdate(cameraDebugControls.up, cameraDebugControls.down,
                  cameraDebugControls.zoomToggle)
  /\ overshoot' = overshoot \cup PassedAxes(targetPosition', currentPosition, currentPosition')
  /\ frame' = frame + 1
  /\ UNCHANGED <<craftVars, rigidVars, keys, spaceshipControls, cameraDebugControls,
                 isPointerLocked, accumulator, lastCallTime, subSteps, boundaryWarning,
                 zoomPresses, zoomAdvances, events, queryResult, twin, lastEvent,
                 variant, cameraKind, controls, deltaTime, frameStart, pc>>

NextFollow == FollowFrame

SpecFollow == InitFollow /\ [][NextFollow]_vars

-----------------------------------------------------------------------------
(* The boundary resolver called repeatedly: checkCollision called again and *)
(* again, with nothing in between, on a craft whose public position and     *)
(* velocity fields hold any of the input values.                            *)

\* checkCollision calls explored
MaxChecks == 2

InitRepeat ==
  /\ variant = "kinematic"
  /\ cameraKind = "spring"
  /\ CameraInit
  /\ GameInit
  /\ RigidInit /\ rbVelocity = Zero3
  /\ position \in AxisInputs \X AxisInputs \X AxisInputs
  /\ velocity \in VelocityInputs
  /\ acceleration = Zero3
  /\ rotation = Zero3
  /\ targetRotation = Zero3
  /\ currentSpeed = Length(velocity)
  /\ controls = NoControls
  /\ deltaTime = 0
  /\ frameStart = CraftState
  /\ pc = "init"
  /\ frame = 0

RepeatCheckCollision ==
  /\ frame < MaxChecks
  /\ CheckCollision
  /\ frameStart' = CraftState
  /\ pc' = "checked"
  /\ frame' = frame + 1
  /\ UNCHANGED <<rigidVars, cameraVars, gameVars, variant, cameraKind, controls, deltaTime>>

NextRepeat == RepeatCheckCollision

SpecRepeat == InitRepeat /\ [][NextRepeat]_vars

-----------------------------------------------------------------------------
(* Claims *)

\* the play volume shrunk by the craft radius
InsidePlayVolume(p) ==
  \A i \in 1..3 :
    /\ p[i] >= boundaries.min[i] + spaceshipRadius
    /\ p[i] <= boundaries.max[i] - spaceshipRadius

\* C1: kinematic craft, at the end of every frame (update, then
\* checkCollision), for any control inputs: every coordinate of the position
\* lies in [min + spaceshipRadius, max - spaceshipRadius].
C1_EndsFrameInsidePlayVolume ==
  (variant = "kinematic" /\ pc = "update") => InsidePlayVolume(position)

\* C1 witness: a frame has ended with the craft put back on the max-Z limit
\* after flying through it (its inward-clamped velocity is zero on that axis)
C1_Witness ==
  /\ variant = "kinematic" /\ pc = "update" /\ frame > 0
  /\ position[3] = BOUNDARY_MAX - spaceshipRadius
  /\ velocity[3] = 0
  /\ currentSpeed > 0

C3_ZoomAdvancesOnRisingEdgeOnly ==
  [][ currentZoomMode' =
        IF lastZoomToggleState' /\ ~lastZoomToggleState
        THEN CASE currentZoomMode = 0 -> 1
               [] currentZoomMode = 1 -> 2
               [] currentZoomMode = 2 -> 0
        ELSE currentZoomMode ]_vars

\* C3 witness: five calls after construction the toggle is down and the mode
\* is back at STANDARD: three presses, each released, went round the cycle
C3_Witness ==
  /\ pc = "camera" /\ frame = 5
  /\ lastZoomToggleState
  /\ currentZoomMode = STANDARD

\* C4 as stated: in every reachable state of the camera, whatever update and
\* setCameraOffset calls were made, cameraOffset.y is in [MIN_HEIGHT, MAX_HEIGHT].
C4_HeightInBand ==
  pc = "camera" => (cameraOffset[2] >= MIN_HEIGHT /\ cameraOffset[2] <= MAX_HEIGHT)

\* C5 as stated: in every reachable state of the camera cameraOffset.z is
\* ZOOM_DISTANCES[currentZoomMode] (so a mode change replaces it within the
\* same call), and the camera starts in STANDARD mode at -10.
C5_OffsetZFollowsZoomMode ==
  pc = "camera" =>
    /\ cameraOffset[3] = ZOOM_DISTANCES(currentZoomMode)
    /\ cameraOffset[3] \in {-50000, -100000, -200000}
    /\ (frame = 0 => currentZoomMode = STANDARD /\ cameraOffset[3] = -100000)

\* strictly inside the boundary volume
StrictlyInsideBoundary(p) ==
  \A i \in 1..3 : boundaries.min[i] < p[i] /\ p[i] < boundaries.max[i]

\* C6 as stated: for every position strictly inside the boundary volume and
\* every velocity, checkCollision leaves position and velocity unchanged.
C6_NoOpStrictlyInside ==
  [][ (pc' = "checked" /\ StrictlyInsideBoundary(position))
        => (position' = position /\ velocity' = velocity) ]_vars

\* C6 amended: for every position inside the boundary volume shrunk by the
\* craft radius (min + radius <= p <= max - radius on all three axes) and
\* every velocity, checkCollision leaves position and velocity unchanged.
C6_NoOpInsideShrunkVolume ==
  [][ (pc' = "checked" /\ InsidePlayVolume(position))
        => (position' = position /\ velocity' = velocity) ]_vars

\* C6 witness: checkCollision has run on a moving craft exactly one radius
\* inside the max-Y face and left its velocity as it was
C6_Witness ==
  /\ pc = "checked"
  /\ position = <<0, 4985000, 0>>
  /\ velocity = <<3000, 3000, 3000>>

\* C7: for every position on or outside a face on some axis, checkCollision
\* puts that coordinate exactly at min + radius (min face) or max - radius
\* (max face) and leaves the velocity component on that axis >= 0 (min face)
\* or <= 0 (max face); an axis within the shrunk volume keeps its coordinate.
C7_FaceCorrection ==
  [][ pc' = "checked" =>
        \A i \in 1..3 :
          /\ position[i] <= boundaries.min[i] =>
                (position'[i] = boundaries.min[i] + spaceshipRadius /\ velocity'[i] >= 0)
          /\ position[i] >= boundaries.max[i] =>
                (position'[i] = boundaries.max[i] - spaceshipRadius /\ velocity'[i] <= 0)
          /\ ( /\ position[i] >= boundaries.min[i] + spaceshipRadius
               /\ position[i] <= boundaries.max[i] - spaceshipRadius )
                => position'[i] = position[i] ]_vars

\* C7 witness: a craft on the min-X face and beyond the max-Z face, with
\* velocity (0.3, -0.3, 0), has been resolved: X and Z on their limits, Y
\* untouched, X velocity still inward
C7_Witness ==
  /\ pc = "checked"
  /\ position = <<BOUNDARY_MIN + spaceshipRadius, 0, BOUNDARY_MAX - spaceshipRadius>>
  /\ velocity = <<900, -900, 0>>

\* C8: if at least one axis was corrected the whole clamped velocity vector
\* is multiplied by 0.3 exactly once, whether one, two or three axes were
\* corrected; if none was, the velocity is not scaled.
C8_BounceOnce ==
  [][ pc' = "checked" =>
        LET cv == [i \in 1..3 |->
                     IF position[i] - spaceshipRadius < boundaries.min[i]
                     THEN Max(0, velocity[i])
                     ELSE IF position[i] + spaceshipRadius > boundaries.max[i]
                          THEN Min(0, velocity[i])
                          ELSE velocity[i]]
        IN  IF InsidePlayVolume(position)
            THEN velocity' = velocity
            ELSE \A i \in 1..3 : Abs(10 * velocity'[i] - 3 * cv[i]) <= 5 ]_vars

\* C8 witness: a craft on the min face of all three axes, moving inward
\* at (0.3, 0.3, 0.3), has been resolved to (0.09, 0.09, 0.09)
C8_Witness ==
  /\ pc = "checked"
  /\ position = <<BOUNDARY_MIN + spaceshipRadius, BOUNDARY_MIN + spaceshipRadius,
                  BOUNDARY_MIN + spaceshipRadius>>
  /\ velocity = <<900, 900, 900>>

\* C9 as stated: from every reachable Craft State, a frame with zero input
\* (no thrust, mouse axes 0) and zero elapsed time leaves Craft State
\* (position, orientation, velocity, speed) unchanged.
C9_ZeroInputFrameIsNoOp ==
  (pc = "update" /\ frame > 0 /\ controls = NoControls /\ deltaTime = 0)
    => CraftState = frameStart

\* C10 as stated: with forward and backward both true the thrust is the sum
\* of the two: kinematic acceleration = forwardDirection * (ACCELERATION -
\* 0.5 * ACCELERATION); rigid-body local force = THRUST_POWER - 0.5 *
\* THRUST_POWER along +Z.
C10_ThrustIsSum ==
  (frame < MaxFrames /\ controls.forward /\ controls.backward) =>
    /\ (variant = "kinematic" /\ pc = "collide") =>
          LET expected == VScale(ForwardDirection(rotation),
                                 ACCELERATION - ACCELERATION \div 2, 10000)
          IN  \A i \in 1..3 : Abs(acceleration[i] - expected[i]) <= 1
    /\ variant = "rigid" =>
          rbForce = <<0, 0, THRUST_POWER - THRUST_POWER \div 2>>

\* C11: kinematic craft, after any sequence of update calls with any mouse
\* inputs: the target pitch targetRotation.x and the actual pitch
\* group.rotation.x both lie in [-PI/2, PI/2], while the target yaw
\* targetRotation.y grows by mouseX * MOUSE_SENSITIVITY on every call, with
\* no clamp.
C11_PitchClampedYawFree ==
  [][ (variant = "kinematic" /\ pc' = "collide") =>
        /\ targetRotation'[1] >= -(PI \div 2) /\ targetRotation'[1] <= PI \div 2
        /\ rotation'[1] >= -(PI \div 2) /\ rotation'[1] <= PI \div 2
        /\ targetRotation'[2] = targetRotation[2] + Mul(controls'.mouseX, 3, 10) ]_vars

\* C11 witness: sustained mouse input from the constructed craft has driven
\* the target pitch onto the clamp and the target yaw past PI/2
C11_Witness ==
  /\ variant = "kinematic" /\ frame > 1
  /\ targetRotation[1] = PI \div 2
  /\ targetRotation[2] > PI \div 2
  /\ rotation[1] > 0 /\ rotation[1] < PI \div 2

\* C12: rigid-body craft, after every update call: a mouse axis whose
\* absolute value is at most MOUSE_THRESHOLD (exactly at the threshold
\* included) contributes no torque (mouseX: yaw and roll; mouseY: pitch), and
\* an axis strictly above the threshold contributes a nonzero torque.
C12_DeadZoneExcludesThreshold ==
  (pc = "rigid" /\ frame > 0) =>
    /\ Abs(controls.mouseX) <= MOUSE_THRESHOLD => (rbTorque[2] = 0 /\ rbTorque[3] = 0)
    /\ Abs(controls.mouseY) <= MOUSE_THRESHOLD => rbTorque[1] = 0
    /\ Abs(controls.mouseX) > MOUSE_THRESHOLD => (rbTorque[2] # 0 /\ rbTorque[3] # 0)
    /\ Abs(controls.mouseY) > MOUSE_THRESHOLD => rbTorque[1] # 0

\* C12 witness: an update with mouseX exactly at the threshold and mouseY one
\* step above it has left pitch torque only
C12_Witness ==
  /\ pc = "rigid" /\ frame > 0
  /\ controls.mouseX = MOUSE_THRESHOLD
  /\ controls.mouseY = MOUSE_THRESHOLD + 1
  /\ rbTorque[1] # 0 /\ rbTorque[2] = 0 /\ rbTorque[3] = 0

\* C13: kinematic craft from the origin at rest, forward held, no rotation
\* input: the speed after each frame is (previous speed + ACCELERATION) *
\* DRAG_COEFFICIENT along the heading, never decreases, stays below
\* ACCELERATION * DRAG / (1 - DRAG) and is at most MAX_SPEED; the boundary
\* resolver leaves it alone.
C13_ThrustDragRecurrence ==
  [][ /\ pc' = "collide" =>
            /\ currentSpeed' = Mul(currentSpeed + ACCELERATION, DRAG_COEFFICIENT, 100)
            /\ velocity' = <<0, 0, currentSpeed'>>
            /\ currentSpeed' >= currentSpeed
            /\ currentSpeed' * (100 - DRAG_COEFFICIENT) < ACCELERATION * DRAG_COEFFICIENT
            /\ currentSpeed' <= MAX_SPEED
      /\ pc' = "update" => (velocity' = velocity /\ currentSpeed' = currentSpeed) ]_vars

\* C13 witness: after a hundred frames of thrust the speed has settled
\* within 0.002 of the limit 0.38
C13_Witness ==
  /\ pc = "update" /\ frame > 100
  /\ controls = ForwardHeld
  /\ currentSpeed > 3780 /\ currentSpeed < 3800
  /\ frameStart.speed = currentSpeed

\* C14 as stated: at the end of every frame the boundary warning is shown
\* exactly when the craft is within the warning distance of a face of the
\* play area.
C14_WarningShownNearBoundary ==
  pc = "animated" => (boundaryWarning = "block" <=> IsNearBoundary(position))

\* C15 as stated: kinematic craft, at the end of every frame (update, then
\* checkCollision): currentSpeed is the magnitude of the velocity vector.
C15_SpeedIsVelocityMagnitude ==
  (variant = "kinematic" /\ pc = "update") => currentSpeed = Length(velocity)

\* C16 as stated: every PhysicsWorld.update(deltaTime) call makes sub-steps
\* of the fixed size and at most maxSubSteps = 3 of them, however large
\* deltaTime is.
C16_AtMostMaxSubSteps ==
  pc = "animated" => subSteps <= maxSubSteps

\* the signed distances from p to the six faces (positive inside)
FaceDistances(p) ==
  {p[i] - boundaries.min[i] : i \in 1..3} \cup {boundaries.max[i] - p[i] : i \in 1..3}

\* C17: getDistanceToBoundary(position) is the least of the signed distances
\* from position to the six faces, floored at zero: never negative, 0 for a
\* position on or outside any face; isNearBoundary(position) is true exactly
\* when that value is below warningDistance.
C17_DistanceToBoundary ==
  pc = "queried" =>
    LET d == queryResult.distance
        D == FaceDistances(position)
    IN  /\ d >= 0
        /\ (\E x \in D : x <= 0) => d = 0
        /\ (\A x \in D : x > 0) => (d \in D /\ \A x \in D : d <= x)
        /\ queryResult.near <=> (d < warningDistance)

\* C17 witness: the queries were made for a craft outside the min-X face,
\* exactly at the warning distance on Y, and well inside on Z: distance 0
\* and near
C17_Witness ==
  /\ pc = "queried"
  /\ position = <<-5000001, -4950000, 0>>
  /\ queryResult = [distance |-> 0, near |-> TRUE]

\* C18 as stated: for every interleaving of zoom-key events with frames,
\* each physical press of a zoom key (a keydown of a key that was released)
\* has advanced the zoom mode exactly once by the end of the next frame: at
\* every frame end the mode has advanced as many times as keys were pressed.
C18_EachPressAdvancesOnce ==
  pc = "animated" => zoomAdvances = zoomPresses

\* C19: every frame of Game.animate hands the craft the mouse axes as they
\* stood when the frame began and ends with both axes at 0, so the next
\* frame sees 0 unless a new mousemove arrived; the frame leaves the thrust
\* flags alone, and in every state they are the pressed state of KeyW and
\* KeyS.
C19_MouseResetThrustPersists ==
  [][ /\ pc' = "animated" =>
            /\ controls' = spaceshipControls
            /\ Abs(spaceshipControls.mouseX) > MOUSE_THRESHOLD => rbTorque'[2] # 0
            /\ spaceshipControls'.mouseX = 0 /\ spaceshipControls'.mouseY = 0
            /\ spaceshipControls'.forward = spaceshipControls.forward
            /\ spaceshipControls'.backward = spaceshipControls.backward
      /\ (pc = "animated" /\ pc' = "animated") =>
            (controls'.mouseX = 0 /\ controls'.mouseY = 0 /\ rbTorque' = Zero3)
      /\ spaceshipControls'.forward = ("KeyW" \in keys')
      /\ spaceshipControls'.backward = ("KeyS" \in keys') ]_vars

\* C19 witness: with KeyW held and the pointer locked, a frame has consumed
\* a mouse movement (yaw torque applied) and ended with the axes at 0 and
\* forward still set
C19_Witness ==
  /\ pc = "animated"
  /\ controls.mouseX # 0 /\ rbTorque[2] # 0
  /\ spaceshipControls.mouseX = 0 /\ spaceshipControls.mouseY = 0
  /\ "KeyW" \in keys /\ spaceshipControls.forward /\ controls.forward

\* C20: kinematic craft: two runs from the same state with the same
\* controls on every update call and frame times of their own reach the same
\* craft state (position, orientation and its target, velocity,
\* acceleration, speed), and every update call moves the position by
\* exactly the velocity vector it leaves.
C20_DeltaTimeIgnored ==
  [][ /\ [twin' EXCEPT !.deltaTime = 0] = [CraftRecord' EXCEPT !.deltaTime = 0]
      /\ position' = VAdd(position, velocity') ]_vars

\* C20 witness: after two update calls under thrust the two craft had
\* different frame times on the last call and have moved
C20_Witness ==
  /\ pc = "twin" /\ frame = 2
  /\ twin.deltaTime # deltaTime
  /\ controls.forward /\ currentSpeed > 0
  /\ twin.position = position /\ position # frameStart.position

\* the position error of the camera on axis i, against the target the last
\* update steered to
PositionError(i) == targetPosition[i] - currentPosition[i]

\* the camera is within 0.005 of its target on every axis
Settled == \A i \in 1..3 : Abs(PositionError(i)) < 50

C22_NoSteeringWithoutPointerLock ==
  /\ [](~isPointerLocked => spaceshipControls.mouseX = 0 /\ spaceshipControls.mouseY = 0)
  /\ [][ /\ (~isPointerLocked /\ lastEvent'.type = "mousemove" /\ pc' = "event") =>
              spaceshipControls' = spaceshipControls
         /\ (isPointerLocked /\ ~isPointerLocked') =>
              (spaceshipControls'.mouseX = 0 /\ spaceshipControls'.mouseY = 0)
         /\ (~isPointerLocked /\ pc' = "animated") =>
              /\ controls'.mouseX = 0 /\ controls'.mouseY = 0
              /\ rbTorque' = Zero3 ]_vars

\* C22 witness: with the pointer locked a mousemove had set an axis; the
\* pointerlockchange that reported the lock lost found it set and has left
\* both axes at 0
C22_Witness ==
  /\ pc = "event" /\ lastEvent.type = "pointerlockchange"
  /\ ~isPointerLocked
  /\ lastEvent.mouseX # 0
  /\ spaceshipControls.mouseX = 0 /\ spaceshipControls.mouseY = 0

\* C23: checkCollision is idempotent: a call made right after another call
\* changes neither the position nor the velocity, whatever position and
\* velocity the first call found (the corrected position is not itself in
\* violation and the bounce factor is not applied again).
C23_CheckCollisionIdempotent ==
  [][ pc = "checked" =>
        /\ position' = position
        /\ velocity' = velocity
        /\ ~Collision(position) ]_vars

\* C23 witness: a craft on the min face of all three axes, moving inward at
\* (0.3, 0.3, 0.3), was corrected and slowed to (0.09, 0.09, 0.09) by the
\* first call, and the second call has left it there at that velocity
C23_Witness ==
  /\ pc = "checked" /\ frame = 2
  /\ position = <<BOUNDARY_MIN + spaceshipRadius, BOUNDARY_MIN + spaceshipRadius,
                  BOUNDARY_MIN + spaceshipRadius>>
  /\ velocity = <<900, 900, 900>>
  /\ frameStart = CraftState

====
